---------------------------- MODULE Spec2Model ----------------------------
(***************************************************************************)
(* A model of common/xutil.c: the X property decoders, the atom shim, the  *)
(* lock-mask resolver and the error classifier.                            *)
(*                                                                         *)
(* Every operation of xutil.c is one action: the whole call, from the      *)
(* request it sends to its return.  The X transport is the environment: it *)
(* chooses the reply of every round trip (a reply, or none).  What a call  *)
(* leaves behind is kept in the state: its return value, its outputs, the  *)
(* heap objects it allocated and neither released nor returned, and the    *)
(* requests it sent whose reply it never collected.                        *)
(***************************************************************************)
EXTENDS Integers, Sequences, FiniteSets, Bags, TLC

VARIABLES
    op,       \* the operation that was called last ("none" before any call)
    args,     \* its inputs
    reply,    \* the replies the transport delivered to it, in order
    ret,      \* its return value
    out,      \* its outputs (buffer, out-parameters) and what it read
    heap,     \* bag of objects the core allocated, did not free, did not return
    pending,  \* requests sent on the connection whose reply was never collected
    sent,     \* requests the last call sent
    aborted   \* the process was killed inside the last call

vars == <<op, args, reply, ret, out, heap, pending, sent, aborted>>

---------------------------------------------------------------------------
(* Bounds of the model. *)

\* longest caller buffer of xutil_gettextprop
MaxTextLen == 4
\* longest payload of a text property
MaxPayload == 4
\* requests left uncollected on the connection before calls stop
MaxPending == 2
\* longest payload (in format units) of a WM_TRANSIENT_FOR reply
MaxUnits == 2
\* longest payload of a WM_CLASS reply
MaxClass == 4
\* bytes mapped behind a WM_CLASS payload
MaxTail == 2
\* largest keycodes_per_modifier
MaxK == 1
\* most cells of a modifier table that hold a keycode
MaxCells == 2
\* largest keycode
MaxKeycode == 3
\* objects left on the heap before calls stop
MaxLeak == 2

---------------------------------------------------------------------------
(* Atoms.  STRING and WINDOW are predefined by the protocol (STRING is a   *)
(* reserved word here, hence ATOM_STRING, ATOM_WINDOW); UTF8_STRING is     *)
(* assigned by the server when it is interned.  XCB_NONE is the zero       *)
(* identifier.                                                             *)

XCB_NONE == 0
ATOM_STRING == 31
ATOM_WINDOW == 33
Utf8StringAtom == 69
CompoundTextAtom == 70

(* A cell of memory the core has not written: the caller's buffer and      *)
(* out-parameters hold it before the call.                                 *)
Uninit == -1

(* The transport delivered nothing: the *_reply() call returned NULL. *)
NoReply == [present |-> FALSE]

(* xcb_get_property_reply_t: type, format, value_len (in format units), the *)
(* generic length field (payload size in 4-byte words) and the payload.     *)
PropertyReply(t, f, v) ==
    [present |-> TRUE, type |-> t, format |-> f, value_len |-> Len(v),
     length |-> (Len(v) * (f \div 8) + 3) \div 4, value |-> v]

SeqsUpTo(S, n) == UNION {[1..k -> S] : k \in 0..n}

(* What a call reports: return value, buffer, requests sent and replies     *)
(* collected, objects still allocated, and whether the process died.        *)
R0 ==
    [ret |-> FALSE, text |-> <<>>, overrun |-> FALSE, sent |-> 0,
     collected |-> 0, live |-> {}, aborted |-> FALSE]

---------------------------------------------------------------------------
(* xutil_intern_atom *)

xutil_intern_atom(r_atom) ==
    LET alloc == IF r_atom.present THEN {"r_atom"} ELSE {}
    IN  [atom |-> IF r_atom.present THEN r_atom.atom ELSE 0,
         sent |-> 1, collected |-> 1,
         live |-> IF r_atom.present THEN alloc \ {"r_atom"} ELSE alloc]

---------------------------------------------------------------------------
(* xutil_gettextprop *)

(* memcpy(dst, src, n) for 0 <= n <= Len(dst), Len(src). *)
memcpy(dst, src, n) == [i \in 1..Len(dst) |-> IF i <= n THEN src[i] ELSE dst[i]]

(* dst[idx] = b, idx a C index. *)
Store(dst, idx, b) == [dst EXCEPT ![idx + 1] = b]

(* memcpy(text, prop_val, textlen - 2) with textlen = 1: the size is        *)
(* (size_t) -1, larger than any object.  The copy runs over the end of the  *)
(* caller's buffer; the process is killed, or the build lets the call go on *)
(* with the memory behind the buffer overwritten.                           *)
UBOutcomes == {"killed", "overrun"}

memcpy_huge(s, prop_val, ub) ==
    IF ub = "killed"
    THEN [s EXCEPT !.aborted = TRUE, !.overrun = TRUE]
    ELSE [s EXCEPT !.overrun = TRUE,
                   !.text = [i \in 1..Len(@) |->
                               IF i <= Len(prop_val) THEN prop_val[i] ELSE Uninit]]

xutil_gettextprop(text, textlen, prop_r, atom_r, ub) ==
    LET s0 == [R0 EXCEPT !.text = text.mem, !.sent = 1]
    IN  IF text.null \/ textlen = 0
        THEN s0
        ELSE
        LET s1 == [s0 EXCEPT !.collected = 1,
                             !.live = IF prop_r.present THEN {"prop_r"} ELSE {}]
        IN  IF ~prop_r.present \/ prop_r.value_len = 0 \/ prop_r.format # 8
            THEN [s1 EXCEPT !.live = @ \ {"prop_r"}]
            ELSE
            LET prop_val == prop_r.value
                isString == prop_r.type = ATOM_STRING
                a  == IF isString
                      THEN [atom |-> 0, sent |-> 0, collected |-> 0, live |-> {}]
                      ELSE xutil_intern_atom(atom_r)
                s2 == [s1 EXCEPT !.sent = @ + a.sent,
                                 !.collected = @ + a.collected,
                                 !.live = @ \cup a.live]
                s3 == IF isString \/ prop_r.type = a.atom
                      THEN IF prop_r.value_len < textlen - 1
                           THEN [s2 EXCEPT !.text =
                                   Store(memcpy(@, prop_val, prop_r.value_len),
                                         prop_r.value_len, 0)]
                           ELSE IF textlen - 2 < 0
                                THEN LET c == memcpy_huge(s2, prop_val, ub)
                                     IN  IF c.aborted THEN c
                                         ELSE [c EXCEPT !.text = Store(@, textlen - 1, 0)]
                                ELSE [s2 EXCEPT !.text =
                                        Store(memcpy(@, prop_val, textlen - 2),
                                              textlen - 1, 0)]
                      ELSE s2
            IN  IF s3.aborted THEN s3
                ELSE [s3 EXCEPT !.live = @ \ {"prop_r"}, !.ret = TRUE]

---------------------------------------------------------------------------
(* xutil_get_transient_for_hint *)

(* The call with the failure path leaving *prop_win as the caller had it. *)
xutil_get_transient_for_hint_keep(t_hint_r, prop_win) ==
    LET s1 == [ret |-> FALSE, prop_win |-> prop_win, sent |-> 1, collected |-> 1,
               live |-> IF t_hint_r.present THEN {"t_hint_r"} ELSE {},
               aborted |-> FALSE]
    IN  IF \/ ~t_hint_r.present
           \/ t_hint_r.type # ATOM_WINDOW
           \/ t_hint_r.format # 32
           \/ t_hint_r.length = 0
        THEN [s1 EXCEPT !.live = @ \ {"t_hint_r"}]
        ELSE [s1 EXCEPT !.prop_win = t_hint_r.value[1],
                        !.live = @ \ {"t_hint_r"},
                        !.ret = TRUE]

xutil_get_transient_for_hint(t_hint_r, prop_win) ==
    LET s1 == [ret |-> FALSE, prop_win |-> prop_win, sent |-> 1, collected |-> 1,
               live |-> IF t_hint_r.present THEN {"t_hint_r"} ELSE {},
               aborted |-> FALSE]
    IN  IF \/ ~t_hint_r.present
           \/ t_hint_r.type # ATOM_WINDOW
           \/ t_hint_r.format # 32
           \/ t_hint_r.length = 0
        THEN [s1 EXCEPT !.prop_win = XCB_NONE, !.live = @ \ {"t_hint_r"}]
        ELSE [s1 EXCEPT !.prop_win = t_hint_r.value[1],
                        !.live = @ \ {"t_hint_r"},
                        !.ret = TRUE]

---------------------------------------------------------------------------
(* xutil_get_class_hint *)

(* The null pointer a call returns for "no hint" or "no error record". *)
NULL == [null |-> TRUE]

(* a_strlen(mem + off): the scan reads mem[off], mem[off + 1], ... up to   *)
(* the first zero byte.  mem is all the mapped memory from the start of    *)
(* the payload on; a scan that finds no zero in it runs into unmapped      *)
(* memory and the process is killed.  last is the offset of the last byte  *)
(* the scan read.                                                          *)
a_strlen(mem, off) ==
    LET zeros == {k \in off..(Len(mem) - 1) : mem[k + 1] = 0}
    IN  IF zeros = {}
        THEN [fault |-> TRUE, len |-> 0, last |-> Len(mem)]
        ELSE LET z == CHOOSE k \in zeros : \A m \in zeros : k <= m
             IN  [fault |-> FALSE, len |-> z - off, last |-> z]

(* strndup copying one byte more than asked. *)
strndup_plus1(name, mem, off, n) ==
    [obj |-> name, bytes |-> SubSeq(mem, off + 1, off + n + 1)]

(* strndup(mem + off, n): a new object holding at most n bytes, cut at the *)
(* first zero byte.                                                        *)
strndup(name, mem, off, n) ==
    LET k == a_strlen(mem, off)
        l == IF k.fault \/ k.len > n THEN n ELSE k.len
    IN  [obj |-> name, bytes |-> SubSeq(mem, off + 1, off + l)]

(* The heap objects a returned record (class hint, error record) owns. *)
Owned(r) ==
    IF r.null THEN {}
    ELSE IF "res_name" \in DOMAIN r
         THEN {r.obj, r.res_name.obj, r.res_class.obj}
         ELSE {r.obj, r.request_label.obj, r.error_label.obj}

(* tail: the bytes mapped behind the payload (padding of the reply, then   *)
(* whatever the allocator has there).                                      *)
xutil_get_class_hint(class_hint_r, tail) ==
    LET s0 == [ret |-> NULL, sent |-> 1, collected |-> 0, live |-> {"ch"},
               objs |-> {"ch"}, last_read |-> -1, aborted |-> FALSE]
        s1 == [s0 EXCEPT !.collected = 1,
                         !.objs = IF class_hint_r.present
                                  THEN @ \cup {"class_hint_r"} ELSE @]
    IN  IF \/ ~class_hint_r.present
           \/ class_hint_r.type # ATOM_STRING
           \/ class_hint_r.format # 8
        THEN [s1 EXCEPT !.objs = @ \ {"class_hint_r"},
                        !.live = s1.objs \ {"class_hint_r"}]
        ELSE
        LET data == class_hint_r.value \o tail
            n1 == a_strlen(data, 0)
        IN  IF n1.fault
            THEN [s1 EXCEPT !.aborted = TRUE, !.last_read = n1.last, !.live = s1.objs]
            ELSE
            LET len_name == n1.len
                n2 == a_strlen(data, len_name + 1)
            IN  IF n2.fault
                THEN [s1 EXCEPT !.aborted = TRUE, !.last_read = n2.last,
                                !.live = s1.objs]
                ELSE
                LET len_class == n2.len
                    res_name == strndup("res_name", data, 0, len_name)
                    res_class == strndup("res_class", data, len_name + 1, len_class)
                    ch == [null |-> FALSE, obj |-> "ch",
                           res_name |-> res_name, res_class |-> res_class]
                    objs == (s1.objs \cup {res_name.obj, res_class.obj})
                            \ {"class_hint_r"}
                IN  [s1 EXCEPT !.ret = ch, !.objs = objs,
                               !.live = objs \ Owned(ch),
                               !.last_read = n2.last]

---------------------------------------------------------------------------
(* xutil_getlockmask *)

(* The modifier table has one row per modifier bit. *)
ModRows == 8

Locks == {"num", "shift", "caps"}

(* 1 << i *)
Shl(i) == 2 ^ i

(* The body of the loop for one cell: kc is the cell's keycode, keysyms    *)
(* gives xcb_key_symbols_get_keycode() of the three lock keysyms, ptrs the *)
(* locks whose output pointer is not null, m the outputs so far.           *)
LockCell(kc, mask, keysyms, ptrs, m) ==
    IF "num" \in ptrs /\ kc = keysyms.num
    THEN [m EXCEPT !.num = mask]
    ELSE IF "shift" \in ptrs /\ kc = keysyms.shift
         THEN [m EXCEPT !.shift = mask]
         ELSE IF "caps" \in ptrs /\ kc = keysyms.caps
              THEN [m EXCEPT !.caps = mask]
              ELSE m

(* The two loops, in their order: cell c = i * K + j, for i = 0..7 and     *)
(* j = 0..K-1.                                                             *)
RECURSIVE LockScan(_, _, _, _, _, _)
LockScan(modmap, K, keysyms, ptrs, c, m) ==
    IF c >= ModRows * K THEN m
    ELSE LockScan(modmap, K, keysyms, ptrs, c + 1,
                  LockCell(modmap[c + 1], Shl(c \div K), keysyms, ptrs, m))

(* modmap_r is read without a null check.  With no reply the read of       *)
(* modmap_r->keycodes_per_modifier is a read through a null pointer: the   *)
(* process is killed, or the build reads whatever is there (mem).          *)
xutil_getlockmask(modmap_r, mem, keysyms, ptrs, masks, ub) ==
    LET s0 == [masks |-> masks, sent |-> 1, collected |-> 1,
               live |-> IF modmap_r.present THEN {"modmap_r"} ELSE {},
               null_read |-> ~modmap_r.present, aborted |-> FALSE]
        tab == IF modmap_r.present THEN modmap_r ELSE mem
    IN  IF ~modmap_r.present /\ ub = "killed"
        THEN [s0 EXCEPT !.aborted = TRUE]
        ELSE [s0 EXCEPT !.masks = LockScan(tab.keycodes, tab.keycodes_per_modifier,
                                           keysyms, ptrs, 0, masks),
                        !.live = @ \ {"modmap_r"}]

---------------------------------------------------------------------------
(* xutil_get_error *)

xutil_error_label ==
    << "Success", "BadRequest", "BadValue", "BadWindow", "BadPixmap",
       "BadAtom", "BadCursor", "BadFont", "BadMatch", "BadDrawable",
       "BadAccess", "BadAlloc", "BadColor", "BadGC", "BadIDChoice",
       "BadName", "BadLength", "BadImplementation" >>

xutil_request_label ==
    << "None", "CreateWindow", "ChangeWindowAttributes",
       "GetWindowAttributes", "DestroyWindow", "DestroySubwindows",
       "ChangeSaveSet", "ReparentWindow", "MapWindow", "MapSubwindows",
       "UnmapWindow", "UnmapSubwindows", "ConfigureWindow",
       "CirculateWindow", "GetGeometry", "QueryTree", "InternAtom",
       "GetAtomName", "ChangeProperty", "DeleteProperty", "GetProperty",
       "ListProperties", "SetSelectionOwner", "GetSelectionOwner",
       "ConvertSelection", "SendEvent", "GrabPointer", "UngrabPointer",
       "GrabButton", "UngrabButton", "ChangeActivePointerGrab",
       "GrabKeyboard", "UngrabKeyboard", "GrabKey", "UngrabKey",
       "AllowEvents", "GrabServer", "UngrabServer", "QueryPointer",
       "GetMotionEvents", "TranslateCoords", "WarpPointer", "SetInputFocus",
       "GetInputFocus", "QueryKeymap", "OpenFont", "CloseFont", "QueryFont",
       "QueryTextExtents", "ListFonts", "ListFontsWithInfo", "SetFontPath",
       "GetFontPath", "CreatePixmap", "FreePixmap", "CreateGC", "ChangeGC",
       "CopyGC", "SetDashes", "SetClipRectangles", "FreeGC", "ClearArea",
       "CopyArea", "CopyPlane", "PolyPoint", "PolyLine", "PolySegment",
       "PolyRectangle", "PolyArc", "FillPoly", "PolyFillRectangle",
       "PolyFillArc", "PutImage", "GetImage", "PolyText", "PolyText",
       "ImageText", "ImageText", "CreateColormap", "FreeColormap",
       "CopyColormapAndFree", "InstallColormap", "UninstallColormap",
       "ListInstalledColormaps", "AllocColor", "AllocNamedColor",
       "AllocColorCells", "AllocColorPlanes", "FreeColors", "StoreColors",
       "StoreNamedColor", "QueryColors", "LookupColor", "CreateCursor",
       "CreateGlyphCursor", "FreeCursor", "RecolorCursor", "QueryBestSize",
       "QueryExtension", "ListExtensions", "ChangeKeyboardMapping",
       "GetKeyboardMapping", "ChangeKeyboardControl", "GetKeyboardControl",
       "Bell", "ChangePointerControl", "GetPointerControl", "SetScreenSaver",
       "GetScreenSaver", "ChangeHosts", "ListHosts", "SetAccessControl",
       "SetCloseDownMode", "KillClient", "RotateProperties",
       "ForceScreenSaver", "SetPointerMapping", "GetPointerMapping",
       "SetModifierMapping", "GetModifierMapping", "major 120", "major 121",
       "major 122", "major 123", "major 124", "major 125", "major 126",
       "NoOperation" >>

Digit == << "0", "1", "2", "3", "4", "5", "6", "7", "8", "9" >>

(* asprintf(&s, "%d", n) for n >= 0: the decimal digits of n. *)
RECURSIVE asprintf_d(_)
asprintf_d(n) ==
    IF n < 10 THEN Digit[n + 1]
    ELSE asprintf_d(n \div 10) \o Digit[(n % 10) + 1]

(* The request code read one byte late, from the pad byte. *)
request_code_pad(e) == e[11]

(* The byte at offset 10 of the raw error. *)
request_code(e) == e[10]

(* e is the raw error, a byte at each offset. *)
xutil_get_error(e) ==
    IF e[0] # 0
    THEN [ret |-> NULL, objs |-> {}, live |-> {}, sent |-> 0, collected |-> 0,
          aborted |-> FALSE]
    ELSE
    LET code == request_code(e)
        request_label ==
            [obj |-> "request_label",
             bytes |-> IF code >= Len(xutil_request_label)
                       THEN asprintf_d(code)
                       ELSE xutil_request_label[code + 1]]
        error_label ==
            [obj |-> "error_label",
             bytes |-> IF e[1] >= Len(xutil_error_label)
                       THEN asprintf_d(e[1])
                       ELSE xutil_error_label[e[1] + 1]]
        err == [null |-> FALSE, obj |-> "err", request_code |-> code,
                request_label |-> request_label, error_label |-> error_label]
        objs == {"err", request_label.obj, error_label.obj}
    IN  [ret |-> err, objs |-> objs, live |-> objs \ Owned(err), sent |-> 0,
         collected |-> 0, aborted |-> FALSE]

---------------------------------------------------------------------------
(* The environment: replies the transport can deliver. *)

TextBytes == {65, 66}
TextTypes == {ATOM_STRING, Utf8StringAtom, CompoundTextAtom}
TextFormats == {8, 16, 32}

TextReplies ==
    {NoReply, PropertyReply(XCB_NONE, 0, <<>>)}
    \cup {PropertyReply(t, f, v) :
            t \in TextTypes, f \in TextFormats, v \in SeqsUpTo(TextBytes, MaxPayload)}

AtomReplies(a) == {NoReply, [present |-> TRUE, atom |-> a]}

WindowIds == {XCB_NONE, 1, 2}
TransientTypes == {ATOM_WINDOW, ATOM_STRING, Utf8StringAtom}
TransientReplies ==
    {NoReply, PropertyReply(XCB_NONE, 0, <<>>)}
    \cup {PropertyReply(t, f, v) :
            t \in TransientTypes, f \in TextFormats, v \in SeqsUpTo(WindowIds, MaxUnits)}

ClassBytes == {0, 65}
ClassTypes == {ATOM_STRING, Utf8StringAtom}
ClassFormats == {8, 32}
ClassReplies ==
    {NoReply, PropertyReply(XCB_NONE, 0, <<>>)}
    \cup {PropertyReply(t, f, v) :
            t \in ClassTypes, f \in ClassFormats, v \in SeqsUpTo(ClassBytes, MaxClass)}
Tails == SeqsUpTo(ClassBytes, MaxTail)

(* Modifier tables: 8 x K cells, all empty (keycode 0) but for the cells   *)
(* of f, at most MaxCells of them.  Each lock keysym is bound to a         *)
(* keycode.                                                                *)
Keycodes == 1..MaxKeycode
ModmapOf(K, f) ==
    [present |-> TRUE, keycodes_per_modifier |-> K,
     keycodes |-> [c \in 1..(ModRows * K) |-> IF c \in DOMAIN f THEN f[c] ELSE 0]]
CellSets(K) == {T \in SUBSET (1..(ModRows * K)) : Cardinality(T) <= MaxCells}
KeysymBindings == [Locks -> Keycodes]

(* Raw errors: 32 bytes, of which the call reads offsets 0, 1 and 10.      *)
Bytes == 0..255
RawError(response_type, error_code, major) ==
    [i \in 0..31 |-> IF i = 0 THEN response_type
                     ELSE IF i = 1 THEN error_code
                     ELSE IF i = 10 THEN major ELSE 0]
SomeErrorCodes == {0, 3, 17, 18, 42, 255}
SomeOpcodes == {0, 1, 16, 119, 127, 128, 200, 255}
RawErrors ==
    {RawError(t, c[1], c[2]) :
        t \in {0, 1}, c \in (Bytes \X SomeOpcodes) \cup (SomeErrorCodes \X Bytes)}

---------------------------------------------------------------------------
(* The state machine. *)

Init ==
    /\ op = "none"
    /\ args = <<>>
    /\ reply = <<>>
    /\ ret = FALSE
    /\ out = <<>>
    /\ heap = EmptyBag
    /\ pending = 0
    /\ sent = 0
    /\ aborted = FALSE

(* A call is made when the caller holds no result of an earlier one and    *)
(* the process lives.  The counters of what the core left behind are       *)
(* capped to keep the state space finite.                                  *)
Callable ==
    /\ op = "none"
    /\ ~aborted
    /\ pending < MaxPending
    /\ BagCardinality(heap) < MaxLeak

(* The bookkeeping every call shares: what it left on the heap and on the  *)
(* connection.                                                             *)
Account(r) ==
    /\ heap' = heap (+) SetToBag(r.live)
    /\ pending' = pending + r.sent - r.collected
    /\ sent' = r.sent
    /\ aborted' = r.aborted

(* The caller is done with the result of the last call (and has released   *)
(* what that result owned).  What the core left behind stays.              *)
Release ==
    /\ op # "none"
    /\ ~aborted
    /\ op' = "none"
    /\ args' = <<>>
    /\ reply' = <<>>
    /\ ret' = FALSE
    /\ out' = <<>>
    /\ sent' = 0
    /\ UNCHANGED <<heap, pending, aborted>>

Replies(r, n) == IF n = 0 THEN <<>> ELSE IF n = 1 THEN <<r[1]>> ELSE r

GetTextProp ==
    /\ Callable
    /\ \E null \in BOOLEAN, textlen \in 0..MaxTextLen, prop_r \in TextReplies,
          atom_r \in AtomReplies(Utf8StringAtom), ub \in UBOutcomes :
          LET text == [null |-> null,
                       mem |-> IF null THEN <<>> ELSE [i \in 1..textlen |-> Uninit]]
              r == xutil_gettextprop(text, textlen, prop_r, atom_r, ub)
          IN  /\ op' = "xutil_gettextprop"
              /\ args' = [text_null |-> null, textlen |-> textlen]
              /\ reply' = Replies(<<prop_r, atom_r>>, r.sent)
              /\ ret' = r.ret
              /\ out' = [text |-> r.text, overrun |-> r.overrun]
              /\ Account(r)

GetTransientForHint ==
    /\ Callable
    /\ \E t_hint_r \in TransientReplies :
          LET r == xutil_get_transient_for_hint(t_hint_r, Uninit)
          IN  /\ op' = "xutil_get_transient_for_hint"
              /\ args' = <<>>
              /\ reply' = <<t_hint_r>>
              /\ ret' = r.ret
              /\ out' = [prop_win |-> r.prop_win]
              /\ Account(r)

GetClassHint ==
    /\ Callable
    /\ \E class_hint_r \in ClassReplies, tail \in Tails :
          LET r == xutil_get_class_hint(class_hint_r, tail)
          IN  /\ op' = "xutil_get_class_hint"
              /\ args' = <<>>
              /\ reply' = <<class_hint_r>>
              /\ ret' = r.ret
              /\ out' = [objs |-> r.objs, last_read |-> r.last_read]
              /\ Account(r)

GetLockMask ==
    /\ Callable
    /\ \E K \in 0..MaxK : \E S \in CellSets(K) : \E f \in [S -> Keycodes] :
       \E present \in BOOLEAN, keysyms \in KeysymBindings,
          ptrs \in SUBSET Locks, ub \in UBOutcomes :
          LET mem == ModmapOf(K, f)
              modmap_r == IF present THEN mem ELSE NoReply
              r == xutil_getlockmask(modmap_r, mem, keysyms, ptrs,
                                     [l \in Locks |-> Uninit], ub)
          IN  /\ op' = "xutil_getlockmask"
              /\ args' = [keysyms |-> keysyms, ptrs |-> ptrs]
              /\ reply' = <<modmap_r>>
              /\ ret' = FALSE
              /\ out' = [masks |-> r.masks, null_read |-> r.null_read]
              /\ Account(r)

InternAtom ==
    /\ Callable
    /\ \E a \in {Utf8StringAtom, CompoundTextAtom} : \E r_atom \in AtomReplies(a) :
          LET r == xutil_intern_atom(r_atom)
          IN  /\ op' = "xutil_intern_atom"
              /\ args' = <<>>
              /\ reply' = <<r_atom>>
              /\ ret' = r.atom
              /\ out' = <<>>
              /\ Account(r @@ [aborted |-> FALSE])

GetError ==
    /\ Callable
    /\ \E e \in RawErrors :
          LET r == xutil_get_error(e)
          IN  /\ op' = "xutil_get_error"
              /\ args' = [e |-> e]
              /\ reply' = <<>>
              /\ ret' = r.ret
              /\ out' = [objs |-> r.objs]
              /\ Account(r)

NextText == GetTextProp \/ Release

SpecText == Init /\ [][NextText]_vars

NextTransient == GetTransientForHint \/ Release

SpecTransient == Init /\ [][NextTransient]_vars

NextClass == GetClassHint \/ Release

SpecClass == Init /\ [][NextClass]_vars

NextLock == GetLockMask \/ Release

SpecLock == Init /\ [][NextLock]_vars

NextError == GetError \/ Release

SpecError == Init /\ [][NextError]_vars

Next ==
    \/ GetTextProp
    \/ GetLockMask
    \/ GetTransientForHint
    \/ InternAtom
    \/ GetClassHint
    \/ GetError
    \/ Release

Spec == Init /\ [][Next]_vars

---------------------------------------------------------------------------
(* Properties. *)

PropReply == reply[1]

(* The reply xutil_gettextprop decodes: format 8, not empty, and of type   *)
(* STRING, or of type UTF8_STRING with that atom interned.                 *)
TextAccepted ==
    /\ PropReply.present
    /\ PropReply.format = 8
    /\ PropReply.value_len > 0
    /\ \/ PropReply.type = ATOM_STRING
       \/ /\ PropReply.type = Utf8StringAtom
          /\ Len(reply) = 2
          /\ reply[2].present

(* C1: after xutil_gettextprop returned true on an accepted reply, with a  *)
(* buffer of length >= 1: text[textlen - 1] is zero, nothing was written   *)
(* behind the buffer, and when the payload is at least as long as the      *)
(* buffer every byte before the terminator is the payload's.               *)
C1_BufferSafety ==
    (/\ op = "xutil_gettextprop"
     /\ ~args.text_null
     /\ args.textlen >= 1
     /\ ret = TRUE
     /\ TextAccepted)
    => /\ out.text[args.textlen] = 0
       /\ ~out.overrun
       /\ PropReply.value_len >= args.textlen
          => \A i \in 1..(args.textlen - 1) : out.text[i] = PropReply.value[i]

(* C2: xutil_gettextprop called with a null buffer or a zero length        *)
(* returns false and has sent no request.                                  *)
C2_NoRequestOnBadBuffer ==
    (op = "xutil_gettextprop" /\ (args.text_null \/ args.textlen = 0))
    => (ret = FALSE /\ sent = 0)

(* C3: xutil_gettextprop returns false exactly when the reply is absent,   *)
(* its format is not 8, its length is zero, the buffer is null or the      *)
(* buffer length is zero; in every other case it returns true.             *)
C3_FalseIff ==
    op = "xutil_gettextprop"
    => LET bad == \/ args.text_null
                  \/ args.textlen = 0
                  \/ ~PropReply.present
                  \/ PropReply.format # 8
                  \/ PropReply.value_len = 0
       IN  /\ ~aborted
           /\ ret = ~bad

(* C4: xutil_get_transient_for_hint: with no reply, a type other than      *)
(* WINDOW, a format other than 32 or an empty payload, the output window   *)
(* is XCB_NONE and the result false; otherwise the result is true and the  *)
(* output window is the first 32-bit unit of the payload.                  *)
C4_TransientFor ==
    op = "xutil_get_transient_for_hint"
    => LET fail == \/ ~PropReply.present
                   \/ PropReply.type # ATOM_WINDOW
                   \/ PropReply.format # 32
                   \/ PropReply.value_len = 0
       IN  IF fail
           THEN ret = FALSE /\ out.prop_win = XCB_NONE
           ELSE ret = TRUE /\ out.prop_win = PropReply.value[1]

C4_Witness ==
    /\ op = "xutil_get_transient_for_hint"
    /\ PropReply.present
    /\ PropReply.value = <<2, 1>>
    /\ ret = TRUE
    /\ out.prop_win = 2

(* C5: xutil_get_class_hint reads no payload byte at an offset at or past  *)
(* the payload length: both scans stay inside the reply, or the call       *)
(* returns no hint.                                                        *)
C5_NoReadPastReply ==
    op = "xutil_get_class_hint"
    => \/ ~aborted /\ ret = NULL
       \/ ~aborted /\ out.last_read < PropReply.value_len

(* The payload is two null-terminated strings and nothing else. *)
TwoStrings(v) ==
    /\ Len(v) >= 2
    /\ v[Len(v)] = 0
    /\ Cardinality({i \in 1..Len(v) : v[i] = 0}) = 2

(* C6: on a STRING, format 8 reply whose payload is two null-terminated    *)
(* strings, xutil_get_class_hint returns a hint whose instance name is the *)
(* bytes before the first null and whose class name is the bytes between   *)
(* the first null and the next, each in an object of its own that is not   *)
(* the reply; with no reply or another type or format it returns no hint.  *)
C6_ClassHint ==
    op = "xutil_get_class_hint"
    => LET match == /\ PropReply.present
                    /\ PropReply.type = ATOM_STRING
                    /\ PropReply.format = 8
       IN  /\ ~match => (~aborted /\ ret = NULL)
           /\ (match /\ TwoStrings(PropReply.value))
              => LET v == PropReply.value
                     z == CHOOSE i \in 1..Len(v) :
                            v[i] = 0 /\ \A j \in 1..(i - 1) : v[j] # 0
                 IN  /\ ~aborted
                     /\ ~ret.null
                     /\ ret.res_name.bytes = SubSeq(v, 1, z - 1)
                     /\ ret.res_class.bytes = SubSeq(v, z + 1, Len(v) - 1)
                     /\ Cardinality({ret.obj, ret.res_name.obj, ret.res_class.obj}) = 3
                     /\ {ret.obj, ret.res_name.obj, ret.res_class.obj} = out.objs
                     /\ "class_hint_r" \notin out.objs

C6_Witness ==
    /\ op = "xutil_get_class_hint"
    /\ PropReply.present
    /\ PropReply.type = ATOM_STRING
    /\ PropReply.format = 8
    /\ PropReply.value = <<65, 0, 65, 0>>
    /\ ~ret.null
    /\ ret.res_name.bytes = <<65>>
    /\ ret.res_class.bytes = <<65>>

(* The cells of the delivered table that hold keycode kc. *)
CellsOf(kc) == {c \in DOMAIN PropReply.keycodes : PropReply.keycodes[c] = kc}

(* C7: after xutil_getlockmask, each lock whose output pointer is not null *)
(* holds 1 << i for the last cell (i, j), in row-major order, with the     *)
(* keycode of the lock's keysym, or its value from before the call when no *)
(* cell has it; whatever the keycodes of the other two locks.              *)
C7_LockMasks ==
    (op = "xutil_getlockmask" /\ PropReply.present)
    => \A l \in args.ptrs :
          LET cells == CellsOf(args.keysyms[l])
              last == CHOOSE c \in cells : \A d \in cells : d <= c
          IN  IF cells = {}
              THEN out.masks[l] = Uninit
              ELSE out.masks[l] =
                     Shl((last - 1) \div PropReply.keycodes_per_modifier)

(* The decimal text of a byte. *)
DecimalText(n) ==
    IF n < 10 THEN Digit[n + 1]
    ELSE IF n < 100 THEN Digit[(n \div 10) + 1] \o Digit[(n % 10) + 1]
    ELSE Digit[(n \div 100) + 1] \o Digit[((n \div 10) % 10) + 1]
         \o Digit[(n % 10) + 1]

(* C8: xutil_get_error on a raw error with response_type 0 returns a       *)
(* record whose request_code is the byte at offset 10, whose request label *)
(* is the table entry of an opcode below 128 and the opcode's decimal text *)
(* otherwise, and whose error label is the table entry of a code in 0..17  *)
(* and the code's decimal text for 18..255.                                *)
C8_ErrorLabels ==
    (op = "xutil_get_error" /\ args.e[0] = 0)
    => LET code == args.e[1]
           major == args.e[10]
       IN  /\ ~ret.null
           /\ ret.request_code = major
           /\ ret.request_label.bytes =
                IF major < 128 THEN xutil_request_label[major + 1]
                ELSE DecimalText(major)
           /\ ret.error_label.bytes =
                IF code <= 17 THEN xutil_error_label[code + 1]
                ELSE DecimalText(code)
           /\ code = 3 => ret.error_label.bytes = "BadWindow"
           /\ code = 17 => ret.error_label.bytes = "BadImplementation"
           /\ code = 18 => ret.error_label.bytes = "18"
           /\ code = 42 => ret.error_label.bytes = "42"
           /\ major = 1 => ret.request_label.bytes = "CreateWindow"
           /\ major = 16 => ret.request_label.bytes = "InternAtom"
           /\ major = 127 => ret.request_label.bytes = "NoOperation"
           /\ major = 128 => ret.request_label.bytes = "128"
           /\ major = 200 => ret.request_label.bytes = "200"

C8_Witness ==
    /\ op = "xutil_get_error"
    /\ args.e[0] = 0
    /\ args.e[1] = 42
    /\ args.e[10] = 200
    /\ ~ret.null
    /\ ret.error_label.bytes = "42"
    /\ ret.request_label.bytes = "200"

(* C9: no operation that makes a round trip dies on an absent reply, or    *)
(* reads through it.                                                       *)
C9_NoAbortOnNullReply ==
    (/\ op \in {"xutil_gettextprop", "xutil_getlockmask",
                "xutil_get_transient_for_hint", "xutil_intern_atom",
                "xutil_get_class_hint"}
     /\ \E n \in DOMAIN reply : ~reply[n].present)
    => /\ ~aborted
       /\ op = "xutil_getlockmask" => ~out.null_read

(* C10: when a call has returned, every object the core allocated is       *)
(* released or owned by the returned value.                                *)
C10_NoLeak == ~aborted => heap = EmptyBag

=============================================================================
